---- MODULE Spec2Model ----
(***************************************************************************)
(* Model of the usage-detection engine of hunt (src/src/search.rs):        *)
(* extract_base_prefixes, compile_regex_patterns, compile_dynamic_patterns *)
(* and the single-pass scan find_used_keys_combined; and of the loading    *)
(* and cleaning of a translation file (src/src/translation.rs):            *)
(* flatten_json and remove_keys_from_value, as handle_unused of            *)
(* src/src/main.rs calls them.                                             *)
(*                                                                         *)
(* A string is a sequence of one-character strings.  A compiled regex is   *)
(* the sequence of atoms obtained by parsing the pattern text that the     *)
(* code builds with regex::escape and format!.                             *)
(***************************************************************************)
EXTENDS Integers, Sequences, FiniteSets, TLC

VARIABLES
    translation_json,   \* the serde_json Value that load_translation_file parsed
    translation_file,   \* the Value the translation file holds on disk
    translations,       \* the catalog's key set (keys of the HashMap<String, Value>)
    exact_patterns,     \* Vec<(String, Regex)> of compile_regex_patterns
    dynamic_patterns,   \* Vec<(String, Regex)> of compile_dynamic_patterns
    base_prefixes,      \* HashMap<String, HashSet<String>> of extract_base_prefixes
    source_files,       \* the file list, each path with what fs::read_to_string gives
    used_keys,          \* HashSet<String> used_keys
    found_prefixes,     \* HashSet<String> found_prefixes
    prefixes_complete,  \* HashSet<String> prefixes_complete
    pc,                 \* position in find_used_keys_combined
    fi,                 \* index of the file of the outer for loop
    pi,                 \* index of the pattern of the inner for loop
    evals,              \* instrumentation: the is_match calls made so far
    marked,             \* instrumentation: prefix -> file during which it was marked
    workers             \* the worker units of a parallel scan; none in the scan of the code

vars == <<translation_json, translation_file, translations, exact_patterns, dynamic_patterns, base_prefixes, source_files,
          used_keys, found_prefixes, prefixes_complete, pc, fi, pi, evals, marked,
          workers>>

-----------------------------------------------------------------------------
(* Bounds *)

MaxKeys == 3
MaxFiles == 2
MaxArr == 2

-----------------------------------------------------------------------------
(* Characters and strings *)

\* \w of the regex crate, restricted to the characters the model uses
WordChars == {"a", "b", "d", "i", "p", "q", "t", "u", "v", "_",
              "0", "1", "2", "3", "4", "5", "6", "7", "8", "9"}

IsWord(c) == c \in WordChars

\* the characters regex::escape puts a backslash before
MetaChars == {"\\", ".", "+", "*", "?", "(", ")", "|", "[", "]", "{", "}", "^", "$",
              "#", "&", "-", "~"}

RECURSIVE regex_escape(_)
regex_escape(s) ==
    IF s = <<>> THEN <<>>
    ELSE (IF Head(s) \in MetaChars THEN <<"\\", Head(s)>> ELSE <<Head(s)>>)
         \o regex_escape(Tail(s))

\* Regex::new on the pattern texts the code builds: \b is a word boundary, a
\* backslash before any other character makes it a literal, an unescaped dot is
\* any character but a newline, [^c]+ is one or more characters other than c.
RECURSIVE regex_new(_)
regex_new(p) ==
    IF p = <<>> THEN <<>>
    ELSE IF Head(p) = "\\" /\ Len(p) >= 2
         THEN (IF p[2] = "b" THEN <<[t |-> "wb", c |-> ""]>>
                             ELSE <<[t |-> "lit", c |-> p[2]]>>)
              \o regex_new(SubSeq(p, 3, Len(p)))
    ELSE IF Head(p) = "[" /\ Len(p) >= 5 /\ p[2] = "^" /\ p[4] = "]" /\ p[5] = "+"
         THEN <<[t |-> "plusnot", c |-> p[3]]>> \o regex_new(SubSeq(p, 6, Len(p)))
    ELSE IF Head(p) = "."
         THEN <<[t |-> "any", c |-> ""]>> \o regex_new(Tail(p))
    ELSE <<[t |-> "lit", c |-> Head(p)]>> \o regex_new(Tail(p))

\* \b at position pos (between content[pos-1] and content[pos]): exactly one side
\* is a word character; outside the text counts as a non-word character
WordBoundary(content, pos) ==
    LET before == pos > 1 /\ IsWord(content[pos - 1])
        after  == pos <= Len(content) /\ IsWord(content[pos])
    IN  before # after

\* the atoms re[k..] match content starting at position pos
RECURSIVE MatchAt(_, _, _, _)
MatchAt(re, k, content, pos) ==
    IF k > Len(re) THEN TRUE
    ELSE LET a == re[k] IN
         CASE a.t = "wb"  -> WordBoundary(content, pos) /\ MatchAt(re, k + 1, content, pos)
           [] a.t = "lit" -> /\ pos <= Len(content)
                             /\ content[pos] = a.c
                             /\ MatchAt(re, k + 1, content, pos + 1)
           [] a.t = "any" -> /\ pos <= Len(content)
                             /\ content[pos] # "\n"
                             /\ MatchAt(re, k + 1, content, pos + 1)
           [] a.t = "plusnot" ->
                 \E n \in 1..(Len(content) - pos + 1) :
                     /\ \A j \in pos..(pos + n - 1) : content[j] # a.c
                     /\ MatchAt(re, k + 1, content, pos + n)

\* Regex::is_match: the pattern matches somewhere in the text
is_match(re, content) == \E pos \in 1..(Len(content) + 1) : MatchAt(re, 1, content, pos)

-----------------------------------------------------------------------------
(* Matcher compilation and prefix extraction *)

\* key.find('.'): the position of the first dot of key, 0 when there is none
rfind_dot_First(key) ==
    LET dots == {i \in 1..Len(key) : key[i] = "."}
    IN  IF dots = {} THEN 0 ELSE CHOOSE i \in dots : \A j \in dots : i <= j

\* key.rfind('.'): the position of the last dot of key, 0 when there is none
rfind_dot(key) ==
    LET dots == {i \in 1..Len(key) : key[i] = "."}
    IN  IF dots = {} THEN 0 ELSE CHOOSE i \in dots : \A j \in dots : j <= i

HasPrefix(key) == rfind_dot(key) > 0

\* key[..dot_pos]
PrefixOf(key) == SubSeq(key, 1, rfind_dot(key) - 1)

\* prefix -> set of the keys whose text before the last dot is prefix
extract_base_prefixes(keys) ==
    LET dotted == {k \in keys : HasPrefix(k)}
    IN  [p \in {PrefixOf(k) : k \in dotted} |-> {k \in dotted : PrefixOf(k) = p}]

\* the pattern text without the word-boundary assertions
ExactPatternText_NoBoundary(key) == regex_escape(key)

ExactPatternText(key) == <<"\\", "b">> \o regex_escape(key) \o <<"\\", "b">>

\* one (key, Regex) per key, in the iteration order of the translations map
compile_regex_patterns(keyOrder) ==
    [i \in 1..Len(keyOrder) |-> <<keyOrder[i], regex_new(ExactPatternText(keyOrder[i]))>>]

\* the pattern text with a word boundary required before the prefix
DynamicPatternText_WordBounded(prefix) ==
    <<"\\", "b">> \o regex_escape(prefix)
        \o <<"\\", ".", "\\", "$", "\\", "{", "[", "^", "}", "]", "+", "\\", "}">>

DynamicPatternText(prefix) ==
    regex_escape(prefix)
        \o <<"\\", ".", "\\", "$", "\\", "{", "[", "^", "}", "]", "+", "\\", "}">>

\* one (prefix, Regex) per prefix, in the iteration order of the prefix map
compile_dynamic_patterns(prefixOrder) ==
    [i \in 1..Len(prefixOrder) |->
        <<prefixOrder[i], regex_new(DynamicPatternText(prefixOrder[i]))>>]

\* the reverse lookup key -> prefix built from the prefix map
key_to_prefix(bp) ==
    [k \in UNION {bp[p] : p \in DOMAIN bp} |-> CHOOSE p \in DOMAIN bp : k \in bp[p]]

-----------------------------------------------------------------------------
(* The scan: the usage state is [used, found, complete] *)

EmptyUsage == [used |-> {}, found |-> {}, complete |-> {}]

\* ExactEvaluates taking a prefix as found as soon as one key of its group is used
ExactEvaluates_SkipsSiblingOfUsed(st, bp, key) ==
    /\ key \notin st.used
    /\ ~(key \in DOMAIN key_to_prefix(bp) /\ key_to_prefix(bp)[key] \in st.found)
    /\ ~(key \in DOMAIN key_to_prefix(bp) /\ bp[key_to_prefix(bp)[key]] \cap st.used # {})

\* ExactEvaluates without the skip of the keys of a dynamically found prefix
ExactEvaluates_IgnoresFoundPrefix(st, bp, key) == key \notin st.used

\* the exact-matcher loop body reaches pattern.is_match
ExactEvaluates(st, bp, key) ==
    /\ key \notin st.used
    /\ ~(key \in DOMAIN key_to_prefix(bp) /\ key_to_prefix(bp)[key] \in st.found)

\* one iteration of the STEP 1 loop
ExactIter(st, bp, entry, content) ==
    LET key == entry[1]
        k2p == key_to_prefix(bp)
    IN  IF ~ExactEvaluates(st, bp, key) THEN st
        ELSE IF ~is_match(entry[2], content) THEN st
        ELSE LET used2 == st.used \cup {key}
             IN  [st EXCEPT
                    !.used = used2,
                    !.complete =
                        IF /\ key \in DOMAIN k2p
                           /\ k2p[key] \notin st.complete
                           /\ k2p[key] \in DOMAIN bp
                           /\ bp[k2p[key]] \subseteq used2
                        THEN st.complete \cup {k2p[key]}
                        ELSE st.complete]

\* the dynamic-matcher loop body reaches pattern.is_match
DynamicEvaluates(st, bp, prefix) ==
    /\ prefix \notin st.found
    /\ prefix \notin st.complete
    /\ ~(prefix \in DOMAIN bp /\ bp[prefix] \subseteq st.used)

\* DynamicIter with the completeness test passing as soon as one key of the group is used
DynamicIter_AnyKeyUsed(st, bp, entry, content) ==
    LET prefix == entry[1]
    IN  IF prefix \in st.found THEN st
        ELSE IF prefix \in st.complete THEN st
        ELSE IF prefix \in DOMAIN bp /\ bp[prefix] \cap st.used # {}
             THEN [st EXCEPT !.complete = st.complete \cup {prefix}]
        ELSE IF is_match(entry[2], content)
             THEN [st EXCEPT !.found = st.found \cup {prefix}]
        ELSE st

\* one iteration of the STEP 2 loop
DynamicIter(st, bp, entry, content) ==
    LET prefix == entry[1]
    IN  IF prefix \in st.found THEN st
        ELSE IF prefix \in st.complete THEN st
        ELSE IF ~DynamicEvaluates(st, bp, prefix)
             THEN [st EXCEPT !.complete = st.complete \cup {prefix}]
        ELSE IF is_match(entry[2], content)
             THEN [st EXCEPT !.found = st.found \cup {prefix}]
        ELSE st

\* MarkFound inserting the found prefix itself instead of the keys of its group
MarkFound_InsertsPrefix(st, bp) ==
    [st EXCEPT !.used = st.used \cup st.found]

\* the loop after the files: every key of a dynamically found prefix is used
MarkFound(st, bp) ==
    [st EXCEPT !.used = st.used \cup
        UNION {bp[p] : p \in {q \in st.found : q \in DOMAIN bp}}]

\* STEP 1 over the patterns pats[i..]
RECURSIVE ExactLoop(_, _, _, _, _)
ExactLoop(st, bp, pats, i, content) ==
    IF i > Len(pats) THEN st
    ELSE ExactLoop(ExactIter(st, bp, pats[i], content), bp, pats, i + 1, content)

\* STEP 2 over the patterns pats[i..]
RECURSIVE DynamicLoop(_, _, _, _, _)
DynamicLoop(st, bp, pats, i, content) ==
    IF i > Len(pats) THEN st
    ELSE DynamicLoop(DynamicIter(st, bp, pats[i], content), bp, pats, i + 1, content)

\* read_ok taking every file as read
read_ok_Always(file) == TRUE

\* fs::read_to_string(file_path) is Ok(content)
read_ok(file) == file.readable

\* the body of the outer loop: a file that cannot be read changes nothing
ScanFile(st, ep, dp, bp, file) ==
    IF ~read_ok(file) THEN st
    ELSE DynamicLoop(ExactLoop(st, bp, ep, 1, file.content), bp, dp, 1, file.content)

RECURSIVE ScanFiles(_, _, _, _, _, _)
ScanFiles(st, ep, dp, bp, files, i) ==
    IF i > Len(files) THEN st
    ELSE ScanFiles(ScanFile(st, ep, dp, bp, files[i]), ep, dp, bp, files, i + 1)

\* the whole of find_used_keys_combined, as a function of its four arguments
find_used_keys_combined(ep, dp, bp, files) ==
    MarkFound(ScanFiles(EmptyUsage, ep, dp, bp, files, 1), bp).used

-----------------------------------------------------------------------------
(* JSON values, flattening and key removal (src/src/translation.rs) *)

\* serde_json::Value: strings stand for the scalars String, Number and Bool, which
\* flatten_json and remove_recursive treat alike
JString(text) == [t |-> "string", s |-> text]
JNull         == [t |-> "null"]
JObject(map)  == [t |-> "object", m |-> map]
JArray(items) == [t |-> "array", a |-> items]

is_null(v) == v.t = "null"

\* an empty HashMap
EmptyMap == [x \in {} |-> x]

\* one fixed iteration order of the set S
RECURSIVE FixedOrder(_)
FixedOrder(S) ==
    IF S = {} THEN <<>>
    ELSE LET x == CHOOSE y \in S : TRUE IN <<x>> \o FixedOrder(S \ {x})

DigitChars == <<"0", "1", "2", "3", "4", "5", "6", "7", "8", "9">>

\* Display of usize: the decimal digits of n
RECURSIVE usize_to_string(_)
usize_to_string(n) ==
    IF n < 10 THEN <<DigitChars[n + 1]>>
    ELSE usize_to_string(n \div 10) \o <<DigitChars[(n % 10) + 1]>>

\* format!("{}.{}", prefix, key), or key alone under the empty prefix
ObjectPath(prefix, key) == IF prefix = <<>> THEN key ELSE prefix \o <<".">> \o key

\* format!("{}[{}]", prefix, i), with the 0-based index of enumerate()
ItemPath(prefix, i) == prefix \o <<"[">> \o usize_to_string(i - 1) \o <<"]">>

\* flatten_json: the map from dot-notation key to leaf value
RECURSIVE flatten_json(_, _)
RECURSIVE FlattenObject(_, _, _, _)
RECURSIVE FlattenArray(_, _, _, _)
flatten_json(value, prefix) ==
    CASE value.t = "object" ->
            FlattenObject(value.m, FixedOrder(DOMAIN value.m), prefix, EmptyMap)
      [] value.t = "array" -> FlattenArray(value.a, 1, prefix, EmptyMap)
      [] OTHER -> [k \in {prefix} |-> value]

\* for (key, val) in map { result.extend(flatten_json(val, new_prefix)) }
FlattenObject(map, names, prefix, result) ==
    IF names = <<>> THEN result
    ELSE FlattenObject(map, Tail(names), prefix,
                       flatten_json(map[Head(names)], ObjectPath(prefix, Head(names))) @@ result)

\* for (i, val) in arr.into_iter().enumerate() { result.extend(...) }
FlattenArray(arr, i, prefix, result) ==
    IF i > Len(arr) THEN result
    ELSE FlattenArray(arr, i + 1, prefix, flatten_json(arr[i], ItemPath(prefix, i)) @@ result)

\* str::starts_with
starts_with(s, t) == Len(t) <= Len(s) /\ SubSeq(s, 1, Len(t)) = t

should_keep_key(key_path, used, unused_set) ==
    \/ key_path \in used
    \/ \E used_key \in used : starts_with(used_key, key_path \o <<".">>) \/ used_key = key_path
    \/ key_path \notin unused_set

\* Vec::into_iter().filter(|v| !v.is_null()).collect()
RECURSIVE FilterNonNull(_)
FilterNonNull(items) ==
    IF items = <<>> THEN <<>>
    ELSE (IF is_null(Head(items)) THEN <<>> ELSE <<Head(items)>>) \o FilterNonNull(Tail(items))

RECURSIVE remove_recursive(_, _, _, _)
remove_recursive(value, prefix, used, unused_set) ==
    CASE value.t = "object" ->
            LET kept == {key \in DOMAIN value.m :
                            should_keep_key(ObjectPath(prefix, key), used, unused_set)}
            IN  JObject([key \in kept |->
                            remove_recursive(value.m[key], ObjectPath(prefix, key), used, unused_set)])
      [] value.t = "array" ->
            \* both branches of the test of should_keep_key push the cleaned item
            JArray(FilterNonNull([i \in 1..Len(value.a) |->
                            remove_recursive(value.a[i], ItemPath(prefix, i), used, unused_set)]))
      [] OTHER -> value

remove_keys_from_value(value, unused_keys, used) == remove_recursive(value, <<>>, used, unused_keys)

-----------------------------------------------------------------------------
(* Inputs *)

Key_id  == <<"i", "d">>
Key_pa  == <<"p", ".", "a">>
Key_pb  == <<"p", ".", "b">>
Key_qa  == <<"q", ".", "a">>
Key_it0 == <<"i", "t", "[", "0", "]">>

KeyPool == {Key_id, Key_pa, Key_pb, Key_qa}

Quoted(s) == <<"\"">> \o s \o <<"\"">>

\* a quoted string that builds a key of the prefix at run time: 'prefix.${v}'
DynamicUse(prefix) == <<"'">> \o prefix \o <<".", "$", "{", "v", "}", "'">>

ContentPool ==
    { Quoted(Key_id),
      Quoted(Key_pa),
      Quoted(Key_pa) \o <<" ">> \o Quoted(Key_pb),
      Quoted(Key_pa) \o <<" ">> \o DynamicUse(<<"p">>),
      DynamicUse(<<"p">>),
      DynamicUse(<<"q">>) }

\* what fs::read_to_string gives for a path: Ok(content), or Err for a file that
\* cannot be read, whatever it holds
FilePool ==
    {[readable |-> TRUE, content |-> c] : c \in ContentPool}
        \cup {[readable |-> FALSE, content |-> DynamicUse(<<"p">>)]}

SeqsUpTo(S, n) == UNION {[1..m -> S] : m \in 0..n}

\* the iteration orders a hash map over the set S can have
Orders(S) == {o \in [1..Cardinality(S) -> S] : \A i, j \in 1..Cardinality(S) : o[i] = o[j] => i = j}

Catalogs == {K \in SUBSET KeyPool : Cardinality(K) <= MaxKeys}

\* the translation file with the keys of K as the names of one object
FlatDoc(K) == JObject([k \in K |-> JString(<<"s">>)])

-----------------------------------------------------------------------------
(* check_translation_usage as a state machine *)

\* check_translation_usage up to the call of find_used_keys_combined, and the
\* initialisation of the usage state in find_used_keys_combined
InitScan(docs, fileLists) ==
    /\ translation_json \in docs
    /\ translation_file = translation_json
    /\ translations = DOMAIN flatten_json(translation_json, <<>>)
    /\ base_prefixes = extract_base_prefixes(translations)
    /\ exact_patterns \in {compile_regex_patterns(o) : o \in Orders(translations)}
    /\ dynamic_patterns \in {compile_dynamic_patterns(o) : o \in Orders(DOMAIN base_prefixes)}
    /\ source_files \in fileLists
    /\ used_keys = {}
    /\ found_prefixes = {}
    /\ prefixes_complete = {}
    /\ pc = "file"
    /\ fi = 1
    /\ pi = 1
    /\ evals = {}
    /\ marked = {}

\* the scan as the code runs it has no worker units
NoWorkers == <<>>

InitWith(docs, fileLists) == InitScan(docs, fileLists) /\ workers = NoWorkers

Init == InitWith({FlatDoc(K) : K \in Catalogs}, SeqsUpTo(FilePool, MaxFiles))

Usage == [used |-> used_keys, found |-> found_prefixes, complete |-> prefixes_complete]

SetUsage(st) ==
    /\ used_keys' = st.used
    /\ found_prefixes' = st.found
    /\ prefixes_complete' = st.complete
    /\ marked' = marked \cup {<<p, fi>> : p \in (st.found \cup st.complete)
                                                 \ (found_prefixes \cup prefixes_complete)}

Inputs == <<translation_json, translations, exact_patterns, dynamic_patterns, base_prefixes, source_files>>

\* fs::read_to_string(file_path) is Ok(content): STEP 1 begins
ReadFile ==
    /\ pc = "file"
    /\ fi <= Len(source_files)
    /\ read_ok(source_files[fi])
    /\ pc' = "step1"
    /\ pi' = 1
    /\ UNCHANGED <<Inputs, translation_file, workers, used_keys, found_prefixes, prefixes_complete, fi, evals, marked>>

\* fs::read_to_string(file_path) is Err: the if let body is not entered
SkipUnreadable ==
    /\ pc = "file"
    /\ fi <= Len(source_files)
    /\ ~read_ok(source_files[fi])
    /\ fi' = fi + 1
    /\ UNCHANGED <<Inputs, translation_file, workers, used_keys, found_prefixes, prefixes_complete, pc, pi, evals, marked>>

\* one iteration of for (key, pattern) in exact_patterns
ExactStep ==
    /\ pc = "step1"
    /\ pi <= Len(exact_patterns)
    /\ SetUsage(ExactIter(Usage, base_prefixes, exact_patterns[pi], source_files[fi].content))
    /\ evals' = IF ExactEvaluates(Usage, base_prefixes, exact_patterns[pi][1])
                THEN evals \cup {[file |-> fi, kind |-> "exact", name |-> exact_patterns[pi][1]]}
                ELSE evals
    /\ pi' = pi + 1
    /\ UNCHANGED <<Inputs, translation_file, workers, pc, fi>>

\* exact_patterns is exhausted: STEP 2 begins
EndExactLoop ==
    /\ pc = "step1"
    /\ pi > Len(exact_patterns)
    /\ pc' = "step2"
    /\ pi' = 1
    /\ UNCHANGED <<Inputs, translation_file, workers, used_keys, found_prefixes, prefixes_complete, fi, evals, marked>>

\* one iteration of for (prefix, pattern) in dynamic_patterns
DynamicStep ==
    /\ pc = "step2"
    /\ pi <= Len(dynamic_patterns)
    /\ SetUsage(DynamicIter(Usage, base_prefixes, dynamic_patterns[pi], source_files[fi].content))
    /\ evals' = IF DynamicEvaluates(Usage, base_prefixes, dynamic_patterns[pi][1])
                THEN evals \cup {[file |-> fi, kind |-> "dynamic", name |-> dynamic_patterns[pi][1]]}
                ELSE evals
    /\ pi' = pi + 1
    /\ UNCHANGED <<Inputs, translation_file, workers, pc, fi>>

\* dynamic_patterns is exhausted: the next file
EndDynamicLoop ==
    /\ pc = "step2"
    /\ pi > Len(dynamic_patterns)
    /\ pc' = "file"
    /\ fi' = fi + 1
    /\ pi' = 1
    /\ UNCHANGED <<Inputs, translation_file, workers, used_keys, found_prefixes, prefixes_complete, evals, marked>>

\* source_files is exhausted: mark the keys of the found prefixes and return
MarkFoundPrefixes ==
    /\ pc = "file"
    /\ fi > Len(source_files)
    /\ used_keys' = MarkFound(Usage, base_prefixes).used
    /\ pc' = "done"
    /\ UNCHANGED <<Inputs, translation_file, workers, found_prefixes, prefixes_complete, fi, pi, evals, marked>>

Next ==
    \/ ReadFile
    \/ SkipUnreadable
    \/ ExactStep
    \/ EndExactLoop
    \/ DynamicStep
    \/ EndDynamicLoop
    \/ MarkFoundPrefixes

Spec == Init /\ [][Next]_vars

-----------------------------------------------------------------------------
(* The matchers on one file whose content is put together from pieces *)

MaxPieces == 3

Pieces ==
    { <<"\"">>, <<" ">>, <<".">>, <<"v">>, <<"}">>, <<"v", "}">>,
      Key_id, Key_it0, Key_pa, <<"p", ".", "$", "{">> }

RECURSIVE Concat(_)
Concat(ss) == IF ss = <<>> THEN <<>> ELSE Head(ss) \o Concat(Tail(ss))

MatchContents == {Concat(ss) : ss \in SeqsUpTo(Pieces, MaxPieces)}

MatchCatalogs == {{Key_id}, {Key_it0}, {Key_pa}, {Key_pa, Key_pb}, {Key_id, Key_it0}}

MatchFileLists ==
    {<<[readable |-> TRUE, content |-> c]>> : c \in MatchContents}
        \cup {<<[readable |-> FALSE, content |-> Quoted(Key_pa)]>>}

InitMatch == InitWith({FlatDoc(K) : K \in MatchCatalogs}, MatchFileLists)

SpecMatch == InitMatch /\ [][Next]_vars

-----------------------------------------------------------------------------
(* Prefix extraction on catalogs with keys of no, one and two dots *)

Key_pab  == <<"p", ".", "a", ".", "b">>
Key_dota == <<".", "a">>

PrefixCatalogs ==
    {K \in SUBSET {Key_id, Key_pa, Key_pb, Key_pab, Key_dota} : Cardinality(K) <= MaxKeys}

PrefixFileLists ==
    SeqsUpTo({[readable |-> TRUE, content |-> Quoted(Key_pab)],
              [readable |-> TRUE, content |-> DynamicUse(Key_pa)],
              [readable |-> FALSE, content |-> Quoted(Key_pa)]}, 1)

InitPrefix == InitWith({FlatDoc(K) : K \in PrefixCatalogs}, PrefixFileLists)

SpecPrefix == InitPrefix /\ [][Next]_vars

-----------------------------------------------------------------------------
(* The scan with the files split among worker units.  Each worker runs the    *)
(* outer loop body of find_used_keys_combined on its own files; its skip      *)
(* checks read its own view of the three sets, which may lag behind the       *)
(* shared sets; what an iteration inserts goes into the shared sets in the    *)
(* same step.  The keys of the found prefixes are marked once every worker    *)
(* has finished.                                                              *)

Workers == {"w1", "w2"}

UsageUnion(s1, s2) ==
    [used |-> s1.used \cup s2.used, found |-> s1.found \cup s2.found,
     complete |-> s1.complete \cup s2.complete]

\* the indices i..Len(asg) that asg gives to worker w, in the order of the list
RECURSIVE IndicesOf(_, _, _)
IndicesOf(asg, w, i) ==
    IF i > Len(asg) THEN <<>>
    ELSE (IF asg[i] = w THEN <<i>> ELSE <<>>) \o IndicesOf(asg, w, i + 1)

\* a worker at the start of its files
StartWorker(asg, w) ==
    [files |-> IndicesOf(asg, w, 1), pc |-> "file", fi |-> 1, pi |-> 1, view |-> EmptyUsage,
     redundant |-> FALSE]

\* the file worker w is at
FileOf(w) == source_files[workers[w].files[workers[w].fi]]

\* the states a skip check of worker w may read: its own view, or its view brought
\* up to date with the shared sets
ViewsOf(w) == {workers[w].view, UsageUnion(workers[w].view, Usage)}

\* an insertion into the shared sets
InsertShared(st) ==
    /\ used_keys' = used_keys \cup st.used
    /\ found_prefixes' = found_prefixes \cup st.found
    /\ prefixes_complete' = prefixes_complete \cup st.complete

Shared == <<used_keys, found_prefixes, prefixes_complete>>

WorkerReadFile(w) ==
    /\ workers[w].pc = "file"
    /\ workers[w].fi <= Len(workers[w].files)
    /\ read_ok(FileOf(w))
    /\ workers' = [workers EXCEPT ![w].pc = "step1", ![w].pi = 1]
    /\ UNCHANGED <<Inputs, translation_file, Shared, pc, fi, pi, evals, marked>>

WorkerSkipUnreadable(w) ==
    /\ workers[w].pc = "file"
    /\ workers[w].fi <= Len(workers[w].files)
    /\ ~read_ok(FileOf(w))
    /\ workers' = [workers EXCEPT ![w].fi = @ + 1]
    /\ UNCHANGED <<Inputs, translation_file, Shared, pc, fi, pi, evals, marked>>

WorkerExactStep(w) ==
    /\ workers[w].pc = "step1"
    /\ workers[w].pi <= Len(exact_patterns)
    /\ \E seen \in ViewsOf(w) :
          LET entry == exact_patterns[workers[w].pi]
              st == ExactIter(seen, base_prefixes, entry, FileOf(w).content)
          IN  /\ workers' = [workers EXCEPT
                    ![w].view = st,
                    ![w].pi = @ + 1,
                    ![w].redundant = @ \/ (/\ ExactEvaluates(seen, base_prefixes, entry[1])
                                           /\ ~ExactEvaluates(Usage, base_prefixes, entry[1]))]
              /\ InsertShared(st)
    /\ UNCHANGED <<Inputs, translation_file, pc, fi, pi, evals, marked>>

WorkerEndExactLoop(w) ==
    /\ workers[w].pc = "step1"
    /\ workers[w].pi > Len(exact_patterns)
    /\ workers' = [workers EXCEPT ![w].pc = "step2", ![w].pi = 1]
    /\ UNCHANGED <<Inputs, translation_file, Shared, pc, fi, pi, evals, marked>>

WorkerDynamicStep(w) ==
    /\ workers[w].pc = "step2"
    /\ workers[w].pi <= Len(dynamic_patterns)
    /\ \E seen \in ViewsOf(w) :
          LET entry == dynamic_patterns[workers[w].pi]
              st == DynamicIter(seen, base_prefixes, entry, FileOf(w).content)
          IN  /\ workers' = [workers EXCEPT
                    ![w].view = st,
                    ![w].pi = @ + 1,
                    ![w].redundant = @ \/ (/\ DynamicEvaluates(seen, base_prefixes, entry[1])
                                           /\ ~DynamicEvaluates(Usage, base_prefixes, entry[1]))]
              /\ InsertShared(st)
    /\ UNCHANGED <<Inputs, translation_file, pc, fi, pi, evals, marked>>

WorkerEndDynamicLoop(w) ==
    /\ workers[w].pc = "step2"
    /\ workers[w].pi > Len(dynamic_patterns)
    /\ workers' = [workers EXCEPT ![w].pc = "file", ![w].fi = @ + 1, ![w].pi = 1]
    /\ UNCHANGED <<Inputs, translation_file, Shared, pc, fi, pi, evals, marked>>

\* every worker has finished its files: mark the keys of the found prefixes
MarkFoundAfterWorkers ==
    /\ pc = "file"
    /\ \A w \in Workers : workers[w].pc = "file" /\ workers[w].fi > Len(workers[w].files)
    /\ used_keys' = MarkFound(Usage, base_prefixes).used
    /\ pc' = "done"
    /\ UNCHANGED <<Inputs, translation_file, workers, found_prefixes, prefixes_complete, fi, pi,
                   evals, marked>>

NextParallel ==
    \/ \E w \in Workers :
          \/ WorkerReadFile(w)
          \/ WorkerSkipUnreadable(w)
          \/ WorkerExactStep(w)
          \/ WorkerEndExactLoop(w)
          \/ WorkerDynamicStep(w)
          \/ WorkerEndDynamicLoop(w)
    \/ MarkFoundAfterWorkers

ParallelCatalogs == {{Key_pa, Key_pb}, {Key_pa, Key_qa}}

ParallelFilePool ==
    {[readable |-> TRUE, content |-> c] :
        c \in {Quoted(Key_pa), Quoted(Key_pb), DynamicUse(<<"p">>)}}
        \cup {[readable |-> FALSE, content |-> DynamicUse(<<"p">>)]}

\* the files are split among the workers in every way
InitParallel ==
    /\ InitScan({FlatDoc(K) : K \in ParallelCatalogs}, SeqsUpTo(ParallelFilePool, MaxFiles))
    /\ \E asg \in [1..Len(source_files) -> Workers] :
          workers = [w \in Workers |-> StartWorker(asg, w)]

SpecParallel == InitParallel /\ [][NextParallel]_vars

-----------------------------------------------------------------------------
(* handle_unused with --clear-unused: the scan, then the cleaning of the file *)

\* translation::remove_unused_keys(path, &unused_keys, &used_keys) on one file, with
\* unused_keys the keys of translations that are not in used_keys
RemoveUnusedKeys ==
    /\ pc = "done"
    /\ translation_file' = remove_keys_from_value(translation_file, translations \ used_keys,
                                                  used_keys)
    /\ pc' = "cleared"
    /\ UNCHANGED <<Inputs, workers, used_keys, found_prefixes, prefixes_complete, fi, pi, evals,
                   marked>>

NextRemove ==
    \/ Next
    \/ RemoveUnusedKeys

Leaves == {JString(<<"s">>), JNull}

\* the objects with some of the names and with members among values
Objects(names, values) ==
    {JObject(f) : f \in UNION {[N -> values] : N \in (SUBSET names) \ {{}}}}

\* the arrays of 1 to MaxArr items among values
Arrays(values) == {JArray(a) : a \in UNION {[1..n -> values] : n \in 1..MaxArr}}

Items == Leaves \cup Objects({<<"a">>}, Leaves)

Branches == Items \cup Arrays(Items) \cup Objects({<<"a">>}, Leaves \cup Arrays(Leaves))

\* translation files { "p": branch } and { "p": branch, "id": "s" } of 1 to MaxKeys keys
RemoveDocs ==
    {d \in {JObject([n \in {<<"p">>} |-> b]) : b \in Branches}
            \cup {JObject([n \in {<<"p">>, Key_id} |-> IF n = Key_id THEN JString(<<"s">>) ELSE b]) :
                    b \in Branches} :
        Cardinality(DOMAIN flatten_json(d, <<>>)) \in 1..MaxKeys}

\* a content in which the exact matcher of key matches
UseOf(key) ==
    IF IsWord(key[Len(key)]) THEN Quoted(key) ELSE <<"'">> \o key \o <<"v">>

\* per key a file that uses it, per prefix a file with a dynamic use, and a file
\* that cannot be read
RemoveFilePool(keys) ==
    {[readable |-> TRUE, content |-> UseOf(k)] : k \in keys}
        \cup {[readable |-> TRUE, content |-> DynamicUse(PrefixOf(k))] : k \in {x \in keys : HasPrefix(x)}}
        \cup {[readable |-> FALSE, content |-> Quoted(Key_id)]}

InitRemove == InitWith(RemoveDocs, SeqsUpTo(RemoveFilePool(translations), MaxFiles))

SpecRemove == InitRemove /\ [][NextRemove]_vars

-----------------------------------------------------------------------------
(* Properties *)

Done == pc = "done"

\* the Regex that a pattern list binds to a key or prefix
MatcherOf(pats, name) == pats[CHOOSE i \in 1..Len(pats) : pats[i][1] = name][2]

ReadableContents(files) == {files[i].content : i \in {j \in 1..Len(files) : files[j].readable}}

\* the key's exact matcher matches the content of some readable file
ExactHit(k, files) ==
    \E c \in ReadableContents(files) : is_match(MatcherOf(exact_patterns, k), c)

\* the prefix's dynamic matcher matches the content of some readable file
DynamicHit(p, files) ==
    \E c \in ReadableContents(files) : is_match(MatcherOf(dynamic_patterns, p), c)

ReferenceResult(files) ==
    {k \in translations :
        \/ ExactHit(k, files)
        \/ HasPrefix(k) /\ DynamicHit(PrefixOf(k), files)}

\* C1: the set the scan returns is the set of the keys whose exact matcher matches
\* some readable file together with the keys whose prefix's dynamic matcher matches
\* some readable file; the short-circuit skips change nothing.
C1_ResultIsReference == Done => used_keys = ReferenceResult(source_files)

\* a key in the result whose exact matcher matches the second file although the
\* scan skipped that evaluation
C1_Witness ==
    /\ Done
    /\ Len(source_files) = 2
    /\ source_files[2].readable
    /\ \E k \in used_keys :
          /\ is_match(MatcherOf(exact_patterns, k), source_files[2].content)
          /\ [file |-> 2, kind |-> "exact", name |-> k] \notin evals
    /\ \E q \in DOMAIN base_prefixes : ~base_prefixes[q] \subseteq used_keys

\* C2: the scan never holds or returns a key that is not a key of the catalog.
C2_ResultWithinCatalog == used_keys \subseteq translations

\* the result holds a key that no file names literally: it came from its prefix
C2_Witness ==
    /\ Done
    /\ \E k \in used_keys : ~ExactHit(k, source_files)

\* the text s stands in content at position i
OccursAt(s, content, i) ==
    /\ i + Len(s) - 1 <= Len(content)
    /\ SubSeq(content, i, i + Len(s) - 1) = s

Occurrences(s, content) == {i \in 1..Len(content) : OccursAt(s, content, i)}

\* the characters before and after the occurrence of s at i ("" outside the text)
CharBefore(content, i) == IF i > 1 THEN content[i - 1] ELSE ""
CharAfter(s, content, i) == IF i + Len(s) <= Len(content) THEN content[i + Len(s)] ELSE ""

\* quotes, parentheses and whitespace; "" is the start or the end of the content
Delimiters == {"\"", "'", "(", ")", " ", ""}

StandaloneAt(k, content, i) ==
    /\ OccursAt(k, content, i)
    /\ CharBefore(content, i) \in Delimiters
    /\ CharAfter(k, content, i) \in Delimiters

\* C3: a key that stands in some readable file as a standalone token (delimited by
\* quotes, parentheses, whitespace or the start or end of the content) is in the
\* result, whatever characters the key begins and ends with.
C3_StandaloneTokenUsed ==
    Done => \A k \in translations :
                (\E c \in ReadableContents(source_files) :
                    \E i \in 1..Len(c) : StandaloneAt(k, c, i))
                => k \in used_keys

DynamicallyConfirmed(k) == HasPrefix(k) /\ PrefixOf(k) \in found_prefixes

\* C4 as claimed: a key that occurs only inside a longer identifier or a longer
\* dotted path, and whose prefix is not dynamically confirmed, is not in the result.
C4_SubstringOfLongerPathUnused ==
    Done => \A k \in translations :
                (/\ \A c \in ReadableContents(source_files) :
                        \A i \in Occurrences(k, c) :
                            \/ CharBefore(c, i) \in WordChars \cup {"."}
                            \/ CharAfter(k, c, i) \in WordChars \cup {"."}
                 /\ ~DynamicallyConfirmed(k))
                => k \notin used_keys

WordEnded(k) == k # <<>> /\ IsWord(k[1]) /\ IsWord(k[Len(k)])

OnlyInsideWords(k, files) ==
    \A c \in ReadableContents(files) :
        \A i \in Occurrences(k, c) :
            IsWord(CharBefore(c, i)) \/ IsWord(CharAfter(k, c, i))

\* C4 as amended: a key that begins and ends with a word character, whose every
\* occurrence has a word character right before or right after it, and whose prefix
\* is not dynamically confirmed, is not in the result.
C4_InsideWordUnused ==
    Done => \A k \in translations :
                (WordEnded(k) /\ OnlyInsideWords(k, source_files) /\ ~DynamicallyConfirmed(k))
                => k \notin used_keys

\* the key occurs in a readable file, only inside longer words, and is not used
C4_Witness ==
    /\ Done
    /\ \E k \in translations :
          /\ WordEnded(k)
          /\ \E c \in ReadableContents(source_files) : Occurrences(k, c) # {}
          /\ OnlyInsideWords(k, source_files)
          /\ k \notin used_keys

\* the text p.${c} with a non-empty c without '}' stands in content at position i
DynamicUseAt(p, content, i) ==
    LET open == p \o <<".", "$", "{">>
        from == i + Len(open)
    IN  /\ OccursAt(open, content, i)
        /\ \E n \in 1..Len(content) :
              /\ from + n <= Len(content)
              /\ \A j \in from..(from + n - 1) : content[j] # "}"
              /\ content[from + n] = "}"

\* C5: when some readable file contains p.${c} for a prefix p, with any text before
\* it, every key of p's group is in the result.
C5_DynamicUseConfirmsGroup ==
    Done => \A p \in DOMAIN base_prefixes :
                (\E c \in ReadableContents(source_files) :
                    \E i \in 1..Len(c) : DynamicUseAt(p, c, i))
                => base_prefixes[p] \subseteq used_keys

\* the dynamic use follows a word character and no key of the group is named
C5_Witness ==
    /\ Done
    /\ \E p \in DOMAIN base_prefixes :
          /\ \E c \in ReadableContents(source_files) :
                \E i \in 2..Len(c) : DynamicUseAt(p, c, i) /\ IsWord(c[i - 1])
          /\ Cardinality(base_prefixes[p]) = 2
          /\ \A k \in base_prefixes[p] : ~ExactHit(k, source_files)
          /\ base_prefixes[p] \subseteq used_keys

\* the list s without its i-th element
RemoveAt(s, i) == SubSeq(s, 1, i - 1) \o SubSeq(s, i + 1, Len(s))

\* the result of a scan of the file list files with this run's matchers
ResultOn(files) ==
    find_used_keys_combined(exact_patterns, dynamic_patterns, base_prefixes, files)

\* C6: adding a file to the file list, at any position, never removes a key from
\* the result: the result on the list without any one of its files is a subset of
\* the result on the list.
C6_MonotoneInFiles ==
    Done => \A i \in 1..Len(source_files) : ResultOn(RemoveAt(source_files, i)) \subseteq used_keys

\* a file put in front of another one grows a non-empty result
C6_Witness ==
    /\ Done
    /\ Len(source_files) = 2
    /\ ResultOn(RemoveAt(source_files, 1)) # {}
    /\ ResultOn(RemoveAt(source_files, 1)) # used_keys

\* C7: the result does not depend on the iteration order of the hash maps: whatever
\* order this run's exact matchers and dynamic matchers are in, the result is the
\* result of the scan with the matchers in one fixed order, so any two runs on the
\* same catalog and file list return the same set.
C7_SameResultInAnyOrder ==
    Done => used_keys =
                find_used_keys_combined(
                    compile_regex_patterns(FixedOrder(translations)),
                    compile_dynamic_patterns(FixedOrder(DOMAIN base_prefixes)),
                    base_prefixes, source_files)

\* three keys under two prefixes in an order that is not the fixed one, some of
\* them used and some not
C7_Witness ==
    /\ Done
    /\ Cardinality(translations) = 3
    /\ Cardinality(DOMAIN base_prefixes) = 2
    /\ exact_patterns # compile_regex_patterns(FixedOrder(translations))
    /\ dynamic_patterns # compile_dynamic_patterns(FixedOrder(DOMAIN base_prefixes))
    /\ used_keys # {}
    /\ used_keys # translations
    /\ prefixes_complete # {}

\* C8: once a prefix is marked dynamically found or complete while file i is
\* processed, no later file sees an evaluation of the prefix's dynamic matcher or of
\* the exact matcher of a key of its group.
C8_NoEvaluationAfterMark ==
    \A m \in marked : \A e \in evals :
        e.file > m[2] =>
            /\ ~(e.kind = "dynamic" /\ e.name = m[1])
            /\ ~(e.kind = "exact" /\ e.name \in base_prefixes[m[1]])

\* a prefix with two keys found dynamically in the first file, and a second file
\* in which some other matcher is evaluated
C8_Witness ==
    /\ Done
    /\ Len(source_files) = 2
    /\ source_files[2].readable
    /\ \E m \in marked :
          /\ m[2] = 1
          /\ m[1] \in found_prefixes
          /\ Cardinality(base_prefixes[m[1]]) = 2
    /\ \E e \in evals : e.file = 2

UsageUnchanged == UNCHANGED <<used_keys, found_prefixes, prefixes_complete>>

\* C9: a file that cannot be read leaves the three sets as they are and the scan
\* goes on with the next file; every file is gone through before the scan returns,
\* and the result is the result on the list without the unreadable file.
C9_UnreadableFileSkipped ==
    /\ [][(pc = "file" /\ fi <= Len(source_files) /\ ~source_files[fi].readable)
            => (UsageUnchanged /\ pc' = "file" /\ fi' = fi + 1)]_vars
    /\ [](Done => /\ fi = Len(source_files) + 1
                  /\ \A i \in 1..Len(source_files) :
                        ~source_files[i].readable
                            => used_keys = ResultOn(RemoveAt(source_files, i)))

\* an unreadable file that holds a dynamic use, followed by a file that is read and
\* gives a key
C9_Witness ==
    /\ Done
    /\ Len(source_files) = 2
    /\ ~source_files[1].readable
    /\ source_files[2].readable
    /\ used_keys # {}
    /\ found_prefixes = {}

\* the body of the outer loop with STEP 2 before STEP 1
ScanFileDynamicFirst(st, ep, dp, bp, file) ==
    IF ~file.readable THEN st
    ELSE ExactLoop(DynamicLoop(st, bp, dp, 1, file.content), bp, ep, 1, file.content)

RECURSIVE ScanFilesDynamicFirst(_, _, _, _, _, _)
ScanFilesDynamicFirst(st, ep, dp, bp, files, i) ==
    IF i > Len(files) THEN st
    ELSE ScanFilesDynamicFirst(ScanFileDynamicFirst(st, ep, dp, bp, files[i]),
                               ep, dp, bp, files, i + 1)

DynamicFirstUsage ==
    ScanFilesDynamicFirst(EmptyUsage, exact_patterns, dynamic_patterns, base_prefixes,
                          source_files, 1)

\* C10: the scan with the dynamic-matcher step before the exact-matcher step in
\* every file returns the same set as the scan as implemented.
C10_StepOrderIrrelevant ==
    Done => MarkFound(DynamicFirstUsage, base_prefixes).used = used_keys

\* the two orders end with different found and complete sets
C10_Witness ==
    /\ Done
    /\ used_keys # {}
    /\ DynamicFirstUsage.found # found_prefixes
    /\ DynamicFirstUsage.complete # prefixes_complete


\* the files the outer loop has reached so far
FilesReached == SubSeq(source_files, 1, IF fi <= Len(source_files) THEN fi ELSE Len(source_files))

\* C14: in every state of the scan a prefix is in the complete set only if every
\* key of its group is in the used-key set, and until the loop over the files has
\* ended the used-key set holds only keys whose own exact matcher matches a file
\* the loop has reached.
C14_CompleteAndUsedDuringScan ==
    /\ \A p \in prefixes_complete : base_prefixes[p] \subseteq used_keys
    /\ ~Done => \A k \in used_keys : ExactHit(k, FilesReached)

\* every file is scanned, a prefix is dynamically found, and none of its keys is
\* in the used-key set yet
C14_Witness ==
    /\ pc = "file"
    /\ fi > Len(source_files)
    /\ used_keys # {}
    /\ \E p \in found_prefixes : base_prefixes[p] \cap used_keys = {}


\* the tag of a prefix in the usage state of three sets
TagOf(p) ==
    IF p \in found_prefixes THEN "DynamicallyConfirmed"
    ELSE IF p \in prefixes_complete THEN "Complete"
    ELSE "Unresolved"

\* the scan driven by one tag per prefix instead of the two prefix sets
TaggedExactIter(ts, bp, entry, content) ==
    LET key == entry[1]
        k2p == key_to_prefix(bp)
    IN  IF key \in ts.used THEN ts
        ELSE IF key \in DOMAIN k2p /\ ts.tag[k2p[key]] = "DynamicallyConfirmed" THEN ts
        ELSE IF ~is_match(entry[2], content) THEN ts
        ELSE LET used2 == ts.used \cup {key}
             IN  IF /\ key \in DOMAIN k2p
                    /\ ts.tag[k2p[key]] = "Unresolved"
                    /\ bp[k2p[key]] \subseteq used2
                 THEN [used |-> used2, tag |-> [ts.tag EXCEPT ![k2p[key]] = "Complete"]]
                 ELSE [ts EXCEPT !.used = used2]

TaggedDynamicIter(ts, bp, entry, content) ==
    LET prefix == entry[1]
    IN  IF ts.tag[prefix] # "Unresolved" THEN ts
        ELSE IF bp[prefix] \subseteq ts.used
             THEN [ts EXCEPT !.tag[prefix] = "Complete"]
        ELSE IF is_match(entry[2], content)
             THEN [ts EXCEPT !.tag[prefix] = "DynamicallyConfirmed"]
        ELSE ts

RECURSIVE TaggedExactLoop(_, _, _, _, _)
TaggedExactLoop(ts, bp, pats, i, content) ==
    IF i > Len(pats) THEN ts
    ELSE TaggedExactLoop(TaggedExactIter(ts, bp, pats[i], content), bp, pats, i + 1, content)

RECURSIVE TaggedDynamicLoop(_, _, _, _, _)
TaggedDynamicLoop(ts, bp, pats, i, content) ==
    IF i > Len(pats) THEN ts
    ELSE TaggedDynamicLoop(TaggedDynamicIter(ts, bp, pats[i], content), bp, pats, i + 1, content)

RECURSIVE TaggedScanFiles(_, _, _, _, _, _)
TaggedScanFiles(ts, ep, dp, bp, files, i) ==
    IF i > Len(files) THEN ts
    ELSE TaggedScanFiles(
            IF ~files[i].readable THEN ts
            ELSE TaggedDynamicLoop(TaggedExactLoop(ts, bp, ep, 1, files[i].content),
                                   bp, dp, 1, files[i].content),
            ep, dp, bp, files, i + 1)

TaggedResult ==
    LET ts == TaggedScanFiles([used |-> {}, tag |-> [p \in DOMAIN base_prefixes |-> "Unresolved"]],
                              exact_patterns, dynamic_patterns, base_prefixes, source_files, 1)
    IN  ts.used \cup UNION {base_prefixes[p] :
                              p \in {q \in DOMAIN base_prefixes : ts.tag[q] = "DynamicallyConfirmed"}}

\* C15: no prefix is both dynamically found and complete; a prefix that has left
\* Unresolved for DynamicallyConfirmed or Complete keeps that tag; and the scan
\* driven by one tag per prefix returns the used-key set of the scan with three sets.
C15_TaggedStateRefinement ==
    /\ [](found_prefixes \cap prefixes_complete = {})
    /\ [][\A p \in DOMAIN base_prefixes : TagOf(p) # "Unresolved" => TagOf(p)' = TagOf(p)]_vars
    /\ [](Done => TaggedResult = used_keys)

\* one prefix ends dynamically found and another one complete
C15_Witness ==
    /\ Done
    /\ found_prefixes # {}
    /\ prefixes_complete # {}
    /\ used_keys = translations

\* the list s with its elements at i and i + 1 exchanged
SwapAt(s, i) == [j \in 1..Len(s) |-> IF j = i THEN s[i + 1] ELSE IF j = i + 1 THEN s[i] ELSE s[j]]

\* C17: the result does not depend on the order of the file list: the scan of the
\* list with any two neighbouring files exchanged returns this run's result, and as
\* every file list is the list of some run, so does the scan of any permutation.
C17_FileOrderIrrelevant ==
    Done => \A i \in 1..(Len(source_files) - 1) : ResultOn(SwapAt(source_files, i)) = used_keys

\* two files whose scan in the other order ends the file loop with other prefix sets
C17_Witness ==
    /\ Done
    /\ Len(source_files) = 2
    /\ used_keys # {}
    /\ LET st == ScanFiles(EmptyUsage, exact_patterns, dynamic_patterns, base_prefixes,
                           SwapAt(source_files, 1), 1)
       IN  /\ st.found # found_prefixes
           /\ st.complete # prefixes_complete

\* remove_unused_keys has returned
Cleared == pc = "cleared"

\* the flattened catalog as loaded before the scan, and as a load of the rewritten
\* file gives it
Loaded == flatten_json(translation_json, <<>>)
Reloaded == flatten_json(translation_file, <<>>)

\* the paths of the object and array nodes below value, each with the node's kind
RECURSIVE NodePaths(_, _)
NodePaths(value, prefix) ==
    LET IsNode(v) == v.t \in {"object", "array"}
        Below(v, path) == (IF IsNode(v) THEN {<<path, v.t>>} ELSE {}) \cup NodePaths(v, path)
    IN  CASE value.t = "object" ->
                UNION {Below(value.m[n], ObjectPath(prefix, n)) : n \in DOMAIN value.m}
          [] value.t = "array" ->
                UNION {Below(value.a[i], ItemPath(prefix, i)) : i \in 1..Len(value.a)}
          [] OTHER -> {}

\* the node at path is a proper ancestor of the leaf key
ProperAncestor(path, key) ==
    starts_with(key, path \o <<".">>) \/ starts_with(key, path \o <<"[">>)

\* C12: after remove_unused_keys every object or array node of the translation
\* file whose path is a proper ancestor of a used key is still in the file, at the
\* same path.
C12_UsedBranchesKept ==
    Cleared => \A n \in NodePaths(translation_json, <<>>) :
                  (\E k \in used_keys : ProperAncestor(n[1], k))
                      => n \in NodePaths(translation_file, <<>>)

\* C13: after remove_unused_keys a load of the rewritten file yields no key of the
\* unused-key list, the catalog keys that are not used.
C13_UnusedKeysGone ==
    Cleared => \A k \in translations \ used_keys : k \notin DOMAIN Reloaded

\* C18: after remove_unused_keys a load of the rewritten file yields every used
\* key that the file defined, with the leaf value it had.
C18_UsedKeysKept ==
    Cleared => \A k \in used_keys \cap DOMAIN Loaded :
                  k \in DOMAIN Reloaded /\ Reloaded[k] = Loaded[k]

\* the text of key before its last dot is prefix
IsTextBeforeLastDot(prefix, key) ==
    /\ Len(key) > Len(prefix)
    /\ SubSeq(key, 1, Len(prefix)) = prefix
    /\ key[Len(prefix) + 1] = "."
    /\ \A j \in (Len(prefix) + 2)..Len(key) : key[j] # "."

C16_ParallelScanSameResult ==
    Done => used_keys = ResultOn(source_files)

\* both workers had a file, and a worker has tested a matcher that the shared sets
\* at that moment told it to skip
C16_Witness ==
    /\ Done
    /\ used_keys # {}
    /\ \A w \in Workers : workers[w].files # <<>>
    /\ \E w \in Workers : workers[w].redundant

====
